---- MODULE Spec2Model ----
(***************************************************************************)
(* Model of auth/handler.go of the service gateway: the                    *)
(* AuthenticationHandler with its two operations,                          *)
(*   Authenticate     (credential delegation to the identity provider)     *)
(*   IsAuthenticated  (bearer token check behind the expiry cache).        *)
(* Each operation is cut into steps at its accesses to state shared        *)
(* between requests (the expiry cache, the wall clock, the configured      *)
(* provider parameters, the logger, the provider), so that concurrent      *)
(* requests interleave the way goroutines of the HTTP server do.           *)
(***************************************************************************)
EXTENDS Integers, Sequences, FiniteSets, TLC

(***************************************************************************)
(* Bounds of the model.                                                    *)
(***************************************************************************)
\* last second of wall-clock time the model runs to
MaxSecond == 2
\* largest "exp" claim (in seconds) a token carries; 0 = no exp claim
MaxExp == 2
\* clock ticks per second: the resolution the cache's timestamps keep below
\* the one-second resolution of time.Now().Unix()
TicksPerSecond == 2

\* concurrent request workers
Procs == {1, 2}
\* raw bearer tokens (token.JWT)
Tokens == {"t1", "t2"}

(***************************************************************************)
(* jwt-go's validation error flags (bits of ValidationError.Errors).        *)
(***************************************************************************)
ValidationErrorSignatureInvalid == 4
ValidationErrorExpired == 16
ValidationErrorNotValidYet == 128

RECURSIVE BitAnd(_, _)
\* a & b
BitAnd(a, b) ==
    IF a = 0 \/ b = 0 THEN 0
    ELSE (IF a % 2 = 1 /\ b % 2 = 1 THEN 1 ELSE 0) + 2 * BitAnd(a \div 2, b \div 2)

RECURSIVE BitOr(_, _)
\* a | b
BitOr(a, b) ==
    IF a = 0 THEN b
    ELSE IF b = 0 THEN a
    ELSE (IF a % 2 = 1 \/ b % 2 = 1 THEN 1 ELSE 0) + 2 * BitOr(a \div 2, b \div 2)

(***************************************************************************)
(* Errors.                                                                 *)
(***************************************************************************)
NilErr == [kind |-> "nil", bits |-> 0]
\* TokenReader errors: the NoTokenError sentinel, or any other failure
NoTokenError == [kind |-> "NoTokenError", bits |-> 0]
ReaderError == [kind |-> "reader", bits |-> 0]
\* *jwt.ValidationError with its Errors bit field
ValidationError(b) == [kind |-> "ValidationError", bits |-> b]
\* any error of another type (storage failure, key lookup, ...)
OtherError == [kind |-> "other", bits |-> 0]

\* error bit fields the verifier is modelled to report: each acceptable flag
\* alone, another flag alone, and the expired flag together with another one
ValidationBits ==
    { ValidationErrorSignatureInvalid, ValidationErrorExpired,
      ValidationErrorNotValidYet,
      BitOr(ValidationErrorExpired, ValidationErrorNotValidYet) }

\* what h.verifier.VerifyToken can hand back: (valid, err); the claims are
\* those of the token (claimExp)
VerifierOutcomes ==
    [valid : {FALSE},
     err : {NilErr, OtherError} \cup {ValidationError(b) : b \in ValidationBits}]
        \cup [valid : {TRUE}, err : {NilErr, OtherError}]

\* what h.tokenReader.TokenFromRequest can hand back
ReaderOutcomes ==
    {[tok |-> "none", err |-> NoTokenError], [tok |-> "none", err |-> ReaderError]}
        \cup {[tok |-> t, err |-> NilErr] : t \in Tokens}

(***************************************************************************)
(* The expiry cache (go-cache), created by                                 *)
(*   cache.New(cache.NoExpiration, 5*time.Minute).                         *)
(* An item is an interface value x (its dynamic type and its number) and   *)
(* the tick at which it expires, 0 when it never does.                     *)
(***************************************************************************)
NoExpiration == -1
DefaultExpiration == 0
\* the cache's default expiration, first argument of cache.New
defaultExpiration == NoExpiration

\* interface{} values: nil, int(n), int64(n)
NilValue == [typ |-> "nil", val |-> 0]
IntValue(n) == [typ |-> "int", val |-> n]
Int64Value(n) == [typ |-> "int64", val |-> n]

NoItem == [present |-> FALSE, x |-> NilValue, expAt |-> 0]
Item(x, expAt) == [present |-> TRUE, x |-> x, expAt |-> expAt]

\* time.Now().Unix() at tick c
Unix(c) == c \div TicksPerSecond
\* time.Duration(s) * time.Second, in ticks
Seconds(s) == s * TicksPerSecond

\* has the item expired at tick now (go-cache: Expiration > 0 and now > Expiration)
Expired(item, now) == item.expAt > 0 /\ now > item.expAt

\* expCache.Get(k) at tick now: (x, found); (nil, false) when absent or expired
CacheGet(c, k, now) ==
    IF c[k].present /\ ~Expired(c[k], now)
    THEN [x |-> c[k].x, ok |-> TRUE]
    ELSE [x |-> NilValue, ok |-> FALSE]

\* expCache.Set(k, x, d) at tick now
CacheSet(c, k, x, d, now) ==
    LET dd == IF d = DefaultExpiration THEN defaultExpiration ELSE d
        e == IF dd > 0 THEN now + dd ELSE 0
    IN  [c EXCEPT ![k] = Item(x, e)]

\* the janitor's DeleteExpired at tick now
DeleteExpired(c, now) ==
    [k \in DOMAIN c |-> IF c[k].present /\ Expired(c[k], now) THEN NoItem ELSE c[k]]

(***************************************************************************)
(* Decisions of IsAuthenticated.                                           *)
(***************************************************************************)
\* exp.(int64): the unchecked type assertion panics on any other dynamic type
AssertInt64Panics(x) == x.typ # "int64"

\* exp == 0: an interface value equals the constant 0 only as an int 0
ExpIsZero(x) == x = IntValue(0)

\* (mutant) the comparison lets the second of expiry itself pass
HitValid_AtExpiry(x, nowUnix) == x = [typ |-> "int", val |-> 0] \/ x.val >= nowUnix

\* ok && (exp == 0 || expiry > time.Now().Unix())
HitValid(x, nowUnix) == ExpIsZero(x) \/ x.val > nowUnix

\* (mutant) the error of the verifier is not looked at
VerifiedValid_IgnoreErr(v) == v.valid

\* err == nil && valid
VerifiedValid(v) == v.err = NilErr /\ v.valid

\* the value stored for a token without exp claim: the untyped constant 0
SentinelValue == IntValue(0)

\* the value stored for a token with exp claim e: stdClaims.ExpiresAt, an int64
ExpiryValue(e) == Int64Value(e)

\* time.Duration(stdClaims.ExpiresAt-time.Now().Unix())*time.Second
EntryTTL(e, nowUnix) == Seconds(e - nowUnix)

\* acceptableErrors := jwt.ValidationErrorExpired | jwt.ValidationErrorSignatureInvalid
acceptableErrors == BitOr(ValidationErrorExpired, ValidationErrorSignatureInvalid)

\* (mutant) a signature-invalid error is returned like any other error
MissError_ExpiredOnly(err) ==
    IF err = NilErr THEN NilErr
    ELSE IF err.kind = "ValidationError" /\ BitAnd(err.bits, ValidationErrorExpired) # 0
         THEN NilErr
         ELSE err

\* (mutant) every validation error is downgraded to a plain negative
MissError_AnyValidation(err) ==
    IF err.kind = "ValidationError" THEN NilErr ELSE err

\* the error IsAuthenticated returns for a verification it did not cache
MissError(err) ==
    IF err = NilErr THEN NilErr
    ELSE IF err.kind = "ValidationError" /\ BitAnd(err.bits, acceptableErrors) # 0
         THEN NilErr
         ELSE err

(***************************************************************************)
(* State.                                                                  *)
(***************************************************************************)
VARIABLES
    clock,      \* wall clock, in ticks
    claimExp,   \* claimExp[t]: the ExpiresAt claim of token t (0: none)
    expCache,   \* h.expCache: token -> item
    pc,         \* pc[p]: where worker p stands
    ia,         \* ia[p]: locals and result of p's IsAuthenticated call
    failed,     \* failed[t]: the last call that returned for t returned false
    hookPreAuth,    \* h.hookPreAuth: the compiled hook script, NoHook when nil
    configured,     \* the provider parameters as the configuration was loaded
    Parameters,     \* h.config.ProviderConfig.Parameters: the one map all calls share
    au          \* au[p]: locals and result of p's Authenticate call

cacheVars == <<clock, claimExp, expCache, ia, failed>>
authVars == <<hookPreAuth, configured, Parameters, au>>
vars == <<clock, claimExp, expCache, pc, ia, failed, hookPreAuth, configured, Parameters, au>>

NoVerdict == [valid |-> FALSE, err |-> NilErr]

\* ia[p] before the token reader has answered
NoCall ==
    [tok |-> "none", out |-> "none", auth |-> FALSE, rtok |-> "nil", err |-> NilErr,
     ok |-> FALSE, exp |-> NilValue, now |-> 0,
     verified |-> FALSE, vres |-> NoVerdict]

\* return (auth, rtok, err)
Return(c, auth, rtok, err) ==
    [c EXCEPT !.out = "return", !.auth = auth, !.rtok = rtok, !.err = err]

(***************************************************************************)
(* Authenticate: values, maps, JSON, the hook, the provider.               *)
(***************************************************************************)
\* a map value: a native string, or a string still wrapped in an otto.Value
Str(s) == [otto |-> FALSE, s |-> s]
Otto(s) == [otto |-> TRUE, s |-> s]
\* ottoValue.Export()
Export(v) == Str(v.s)

EmptyMap == [k \in {} |-> Str("")]
\* m[k] = v
MapSet(m, k, v) == [x \in DOMAIN m \cup {k} |-> IF x = k THEN v ELSE m[x]]
\* json.Marshal(m): the JSON object, as the set of its members; an otto.Value
\* has no exported field and is written as {}
Marshal(m) == {<<k, IF m[k].otto THEN "{}" ELSE m[k].s>> : k \in DOMAIN m}
\* the strings a printed map or JSON object shows
MapStrings(m) == DOMAIN m \cup {m[k].s : k \in DOMAIN m}

\* (mutant) the values of the hook's body are left as the runtime wrapped them
ExportValues_Skip(m) == m

\* for k := range newAuthRequest { if otto.Value: newAuthRequest[k] = Export() }
ExportValues(m) == [k \in DOMAIN m |-> IF m[k].otto THEN Export(m[k]) ELSE m[k]]

\* if _, ok := m["password"]; ok { m["password"] = "*REDACTED*" }
Redact(m) == IF "password" \in DOMAIN m THEN MapSet(m, "password", Str("*REDACTED*")) ELSE m

\* (mutant) the body is serialized after the redaction
RequestBody_Redacted(m) == Marshal(IF "password" \in DOMAIN m THEN MapSet(m, "password", Str("*REDACTED*")) ELSE m)

\* jsonString, err := json.Marshal(authRequest): the body of the request
RequestBody(m) == Marshal(m)

\* h.config.ProviderConfig.Url
Url == "https://idp.example"
\* requestURL := Url + "/authenticate" (a URL is the sequence of its parts)
AuthenticateURL == <<Url, "/authenticate">>
\* the URL a hook redirects the request to
HookURL == <<"https://tenant.example/login">>

\* the configurations the model starts from: static parameters alone, and
\* static parameters that already name a username and a password
ConfiguredParameters ==
    { [realm |-> Str("r")],
      [realm |-> Str("r"), username |-> Str("cfguser"), password |-> Str("cfgpass")] }

\* the credentials of the login attempts
Credentials == { [username |-> "alice", password |-> "pw1"],
                 [username |-> "bob", password |-> "pw2"] }

NoBody == [isMap |-> FALSE, m |-> EmptyMap]
\* allowedApplications of a hook result: undefined, a value exported as
\* []string, or a defined value exported as anything else
NoApps == [defined |-> FALSE, strings |-> FALSE, l |-> <<>>]
AllowedApps == { NoApps,
                 [defined |-> TRUE, strings |-> TRUE, l |-> <<"a", "b">>],
                 [defined |-> TRUE, strings |-> FALSE, l |-> <<"a", "b">>] }

\* the hook scripts the handler is constructed with, by what their exported
\* function does: fail (the script, the exports lookup, the call, a property
\* getter), return a falsy value, return a truthy value that is no object,
\* or return an object with a body, a url and allowedApplications
HookScripts ==
    [kind : {"runerr", "nofunc", "callerr", "geterr", "falsy", "scalar"},
     body : {"none"}, url : {<<>>}, apps : {NoApps}]
    \cup
    [kind : {"object"},
     body : {"none", "same", "wrapped", "renamed", "nopassword"},
     url : {<<>>, HookURL},
     apps : AllowedApps]

\* h.hookPreAuth when no hook is configured
NoHook == [kind |-> "nil", body |-> "none", url |-> <<>>, apps |-> NoApps]

\* the body property of the hook's result for (u, pw), exported: the request
\* as it stands, the same with values still wrapped, with renamed fields,
\* without password; no map when body is no object
HookBody(script, u, pw) ==
    CASE script.body = "same" ->
            [isMap |-> TRUE, m |-> [username |-> Str(u), password |-> Str(pw)]]
      [] script.body = "wrapped" ->
            [isMap |-> TRUE, m |-> [username |-> Otto(u), password |-> Otto(pw)]]
      [] script.body = "renamed" ->
            [isMap |-> TRUE, m |-> [user |-> Str(u), pass |-> Str(pw)]]
      [] script.body = "nopassword" ->
            [isMap |-> TRUE, m |-> [username |-> Str(u)]]
      [] OTHER -> NoBody

\* hookResult.ToBoolean()
ToBoolean(h) == h.kind \in {"scalar", "object"}
\* (mutant) every truthy result is taken as an object
IsObject_Always(h) == TRUE

\* hookResult.IsObject()
IsObject(h) == h.kind = "object"
\* (mutant) a falsy result is not taken as a rejection
HookRejects_Never(h) == FALSE

\* if !hookResultBool { return nil, InvalidCredentialsError }
HookRejects(h) == ~ToBoolean(h)

\* errors of Authenticate
NoProps == [k \in {} |-> ""]
AuthErr(kind) == [kind |-> kind, status |-> 0, body |-> "", ctype |-> <<>>, props |-> NoProps]
NoAuthErr == AuthErr("nil")
InvalidCredentialsError == AuthErr("InvalidCredentialsError")
\* fmt.Errorf("unexpected status code %d for user %s: %s", ...)
StatusError(status, body) == [AuthErr("status") EXCEPT !.status = status, !.body = body]
InvalidResponseBodyContentTypeError(ct) ==
    [AuthErr("InvalidResponseBodyContentTypeError") EXCEPT !.ctype = ct]
AuthenticationIncompleteError(props) ==
    [AuthErr("AuthenticationIncompleteError") EXCEPT !.props = props]

\* provider responses: status codes, content types, bodies
StatusForbidden == 403
StatusAccepted == 202
Statuses == {200, StatusAccepted, 399, 400, StatusForbidden, 500}
ContentTypes == { <<"application/json">>, <<"application/json", "; charset=utf-8">>,
                  <<"text/plain">>, <<>> }
JWTBody == "abc.def.ghi"
FactorBody == "{\"factor\":\"sms\"}"
Bodies == {JWTBody, FactorBody}
\* what h.httpClient.Do can give: a transport error, or a response
Responses ==
    {[err |-> TRUE, status |-> 0, ctype |-> <<>>, body |-> ""]}
        \cup [err : {FALSE}, status : Statuses \ {StatusAccepted},
              ctype : {<<"application/jwt">>}, body : Bodies]
        \cup [err : {FALSE}, status : {StatusAccepted}, ctype : ContentTypes, body : Bodies]

\* (mutant) the content type is compared as a whole
HasPrefix_Equal(s, prefix) == s = prefix

\* strings.HasPrefix(s, prefix), on sequences of parts
HasPrefix(s, prefix) ==
    Len(s) >= Len(prefix) /\ SubSeq(s, 1, Len(prefix)) = prefix

\* json.NewDecoder(body).Decode(&unmarshalledBody)
Decode(body) ==
    IF body = FactorBody
    THEN [ok |-> TRUE, m |-> [factor |-> "sms"]]
    ELSE [ok |-> FALSE, m |-> NoProps]

NoRequest == [url |-> <<>>, body |-> {}]
\* no answer of the provider yet
NoResponse == [err |-> FALSE, status |-> 0, ctype |-> <<>>, body |-> ""]
NilResponse == [nil |-> TRUE, JWT |-> "", AllowedApplications |-> <<>>]

\* au[p] before a call
NoLogin ==
    [username |-> "", password |-> "", ref |-> "cfg", own |-> EmptyMap,
     requestURL |-> <<>>, hook |-> "none", allowed |-> <<>>,
     jsonString |-> {}, logs |-> {}, sent |-> NoRequest, nreq |-> 0,
     got |-> NoResponse,
     out |-> "none", resp |-> NilResponse, err |-> NoAuthErr]

\* a line the handler writes to its logger: the source line, the strings shown
LogLine(line, strs) == [line |-> line, strs |-> strs]

\* the locals of a call are gone when it returns: what stays in au[p] is what
\* the call was given, what it logged and sent, and what it returned
Leave(c) ==
    [c EXCEPT !.ref = "cfg", !.own = EmptyMap, !.requestURL = <<>>, !.allowed = <<>>,
              !.jsonString = {}]
\* return nil, err
Fail(c, err) == Leave([c EXCEPT !.out = "return", !.resp = NilResponse, !.err = err])
\* return &response, nil
Succeed(c, jwt) ==
    Leave([c EXCEPT !.out = "return",
                    !.resp = [nil |-> FALSE, JWT |-> jwt, AllowedApplications |-> c.allowed],
                    !.err = NoAuthErr])

\* the handler as NewAuthenticationHandler returns it, for every configuration
\* and every pair of token claims (tokens are interchangeable: the claims are
\* drawn up to renaming)
Init ==
    /\ clock = TicksPerSecond
    /\ claimExp \in {f \in [Tokens -> 0..MaxExp] : f["t1"] <= f["t2"]}
    /\ expCache = [t \in Tokens |-> NoItem]
    /\ pc = [p \in Procs |-> "idle"]
    /\ ia = [p \in Procs |-> NoCall]
    /\ failed = [t \in Tokens |-> FALSE]
    /\ hookPreAuth \in {NoHook} \cup HookScripts
    /\ configured \in ConfiguredParameters
    /\ Parameters = configured
    /\ au = [p \in Procs |-> NoLogin]

(***************************************************************************)
(* Environment: time passes; the cache's janitor sweeps.                   *)
(***************************************************************************)
Tick ==
    /\ clock < MaxSecond * TicksPerSecond + (TicksPerSecond - 1)
    /\ clock' = clock + 1
    /\ UNCHANGED <<claimExp, expCache, pc, ia, failed, authVars>>

Janitor ==
    /\ expCache' = DeleteExpired(expCache, clock)
    /\ expCache' # expCache
    /\ UNCHANGED <<clock, claimExp, pc, ia, failed, authVars>>

(***************************************************************************)
(* IsAuthenticated.                                                        *)
(***************************************************************************)
\* the call of p returns: its result stays in ia[p] until p's next call
Finish(p, c) ==
    /\ ia' = [ia EXCEPT ![p] = c]
    /\ pc' = [pc EXCEPT ![p] = "idle"]
    /\ failed' = IF c.tok \in Tokens /\ c.out = "return"
                 THEN [failed EXCEPT ![c.tok] = ~c.auth]
                 ELSE failed

\* token, err := h.tokenReader.TokenFromRequest(req), and the two early returns
IsAuthenticated_Read(p) ==
    /\ pc[p] = "idle"
    /\ \E r \in ReaderOutcomes :
        IF r.err = NoTokenError
        THEN Finish(p, Return(NoCall, FALSE, "nil", NilErr))
        ELSE IF r.err # NilErr
        THEN Finish(p, Return(NoCall, FALSE, "nil", r.err))
        ELSE /\ ia' = [ia EXCEPT ![p] = [NoCall EXCEPT !.tok = r.tok]]
             /\ pc' = [pc EXCEPT ![p] = "get"]
             /\ UNCHANGED failed
    /\ UNCHANGED <<clock, claimExp, expCache, authVars>>

\* exp, ok := h.expCache.Get(token.JWT); if ok { expiry = exp.(int64) }
IsAuthenticated_Get(p) ==
    /\ pc[p] = "get"
    /\ LET g == CacheGet(expCache, ia[p].tok, clock)
           c == [ia[p] EXCEPT !.ok = g.ok, !.exp = g.x]
       IN  IF g.ok /\ AssertInt64Panics(g.x)
           THEN Finish(p, [c EXCEPT !.out = "panic"])
           ELSE /\ ia' = [ia EXCEPT ![p] = c]
                /\ pc' = [pc EXCEPT ![p] = IF g.ok THEN "hit" ELSE "miss"]
                /\ UNCHANGED failed
    /\ UNCHANGED <<clock, claimExp, expCache, authVars>>

\* (mutant) a stale entry is taken as a miss and the token verified again
IsAuthenticated_Hit_Reverify(p) ==
    /\ pc[p] = "hit"
    /\ LET c == [ia[p] EXCEPT !.now = Unix(clock)]
       IN  IF HitValid(c.exp, Unix(clock))
           THEN Finish(p, Return(c, TRUE, c.tok, NilErr))
           ELSE /\ ia' = [ia EXCEPT ![p] = c]
                /\ pc' = [pc EXCEPT ![p] = "miss"]
                /\ UNCHANGED failed
    /\ UNCHANGED <<clock, claimExp, expCache, authVars>>

\* if ok && (exp == 0 || expiry > time.Now().Unix()) { return true, token, nil }
\* else if !ok {...}; return false, nil, nil
IsAuthenticated_Hit(p) ==
    /\ pc[p] = "hit"
    /\ LET c == [ia[p] EXCEPT !.now = Unix(clock)]
       IN  IF HitValid(c.exp, Unix(clock))
           THEN Finish(p, Return(c, TRUE, c.tok, NilErr))
           ELSE Finish(p, Return(c, FALSE, "nil", NilErr))
    /\ UNCHANGED <<clock, claimExp, expCache, authVars>>

\* valid, stdClaims, _, err := h.verifier.VerifyToken(token.JWT)
\* if err == nil && valid { ExpiresAt == 0: Set(0, NoExpiration), return true;
\* ExpiresAt > time.Now().Unix(): go on to the Set }; then the error switch
IsAuthenticated_Miss(p) ==
    /\ pc[p] = "miss"
    /\ \E v \in VerifierOutcomes :
        LET c == [ia[p] EXCEPT !.verified = TRUE, !.vres = v]
            e == claimExp[c.tok]
        IN  IF VerifiedValid(v) /\ e = 0
            THEN /\ expCache' = CacheSet(expCache, c.tok, SentinelValue, NoExpiration, clock)
                 /\ Finish(p, Return(c, TRUE, c.tok, NilErr))
            ELSE IF VerifiedValid(v) /\ e > Unix(clock)
            THEN /\ ia' = [ia EXCEPT ![p] = [c EXCEPT !.now = Unix(clock)]]
                 /\ pc' = [pc EXCEPT ![p] = "set"]
                 /\ UNCHANGED <<expCache, failed>>
            ELSE /\ Finish(p, Return(c, FALSE, "nil", MissError(v.err)))
                 /\ UNCHANGED expCache
    /\ UNCHANGED <<clock, claimExp, authVars>>

\* h.expCache.Set(token.JWT, stdClaims.ExpiresAt,
\*     time.Duration(stdClaims.ExpiresAt-time.Now().Unix())*time.Second)
\* return true, token, nil
IsAuthenticated_Set(p) ==
    /\ pc[p] = "set"
    /\ LET c == ia[p]
           e == claimExp[c.tok]
       IN  /\ expCache' = CacheSet(expCache, c.tok, ExpiryValue(e),
                                   EntryTTL(e, Unix(clock)), clock)
           /\ Finish(p, Return(c, TRUE, c.tok, NilErr))
    /\ UNCHANGED <<clock, claimExp, authVars>>

IsAuthenticated(p) ==
    \/ IsAuthenticated_Read(p)
    \/ IsAuthenticated_Get(p)
    \/ IsAuthenticated_Hit(p)
    \/ IsAuthenticated_Miss(p)
    \/ IsAuthenticated_Set(p)

(***************************************************************************)
(* Authenticate.                                                           *)
(***************************************************************************)
\* the map authRequest refers to: the configured one, or the hook's own
AuthRequest(p) == IF au[p].ref = "cfg" THEN Parameters ELSE au[p].own

AuthReturn(p, c) ==
    /\ au' = [au EXCEPT ![p] = c]
    /\ pc' = [pc EXCEPT ![p] = "idle"]

AuthGoto(p, c, to) ==
    /\ au' = [au EXCEPT ![p] = c]
    /\ pc' = [pc EXCEPT ![p] = to]

\* response := JWTResponse{}
\* authRequest := h.config.ProviderConfig.Parameters
\* authRequest["username"] = username
Authenticate_Username(p) ==
    /\ pc[p] = "idle"
    /\ \E cr \in Credentials :
        /\ Parameters' = MapSet(Parameters, "username", Str(cr.username))
        /\ AuthGoto(p, [NoLogin EXCEPT !.username = cr.username,
                                        !.password = cr.password], "password")
    /\ UNCHANGED <<cacheVars, hookPreAuth, configured>>

\* authRequest["password"] = password
\* requestURL := h.config.ProviderConfig.Url + "/authenticate"
Authenticate_Password(p) ==
    /\ pc[p] = "password"
    /\ Parameters' = MapSet(Parameters, "password", Str(au[p].password))
    /\ AuthGoto(p, [au[p] EXCEPT !.requestURL = AuthenticateURL],
                IF hookPreAuth # NoHook THEN "hook" ELSE "marshal")
    /\ UNCHANGED <<cacheVars, hookPreAuth, configured>>

\* if h.hookPreAuth != nil {...}: run the script, call its function, take body,
\* url and allowedApplications from the object it returns (a failing property
\* getter is modelled at the first Get)
Authenticate_Hook(p) ==
    /\ pc[p] = "hook"
    /\ LET h == hookPreAuth
           c == [au[p] EXCEPT !.hook = h.kind]
           body == HookBody(h, c.username, c.password)
           own == ExportValues(body.m)
           urlSet == h.url # <<>>
           appsSet == h.apps.defined /\ h.apps.strings
           logs == (IF body.isMap THEN {LogLine(157, MapStrings(own))} ELSE {})
                   \cup (IF urlSet THEN {LogLine(166, {h.url[1]})} ELSE {})
                   \cup (IF appsSet
                         THEN {LogLine(177, {h.apps.l[i] : i \in DOMAIN h.apps.l})}
                         ELSE {})
       IN  IF h.kind \in {"runerr", "nofunc", "callerr", "geterr"}
           THEN AuthReturn(p, Fail(c, AuthErr(h.kind)))
           ELSE IF HookRejects(h)
           THEN AuthReturn(p, Fail(c, InvalidCredentialsError))
           ELSE IF ~IsObject(h)
           THEN AuthReturn(p, Fail(c, AuthErr("hook function must return object")))
           ELSE AuthGoto(p, [c EXCEPT !.ref = IF body.isMap THEN "own" ELSE "cfg",
                                      !.own = IF body.isMap THEN own ELSE EmptyMap,
                                      !.requestURL = IF urlSet THEN h.url ELSE @,
                                      !.allowed = IF appsSet THEN h.apps.l ELSE @,
                                      !.logs = @ \cup logs],
                         "marshal")
    /\ UNCHANGED <<cacheVars, hookPreAuth, configured, Parameters>>

\* jsonString, err := json.Marshal(authRequest)
Authenticate_Marshal(p) ==
    /\ pc[p] = "marshal"
    /\ AuthGoto(p, [au[p] EXCEPT !.jsonString = RequestBody(AuthRequest(p))], "redact")
    /\ UNCHANGED <<cacheVars, hookPreAuth, configured, Parameters>>

\* redactedAuthRequest := authRequest
\* if _, ok := redactedAuthRequest["password"]; ok { ...["password"] = "*REDACTED*" }
Authenticate_Redact(p) ==
    /\ pc[p] = "redact"
    /\ IF au[p].ref = "cfg"
       THEN /\ Parameters' = Redact(Parameters)
            /\ AuthGoto(p, au[p], "log")
       ELSE /\ AuthGoto(p, [au[p] EXCEPT !.own = Redact(@)], "log")
            /\ UNCHANGED Parameters
    /\ UNCHANGED <<cacheVars, hookPreAuth, configured>>

\* debugJsonString, _ := json.Marshal(redactedAuthRequest)
\* h.logger.Infof("authenticating user %s", username)
\* h.logger.Debugf("authentication request: %s", debugJsonString)
Authenticate_Log(p) ==
    /\ pc[p] = "log"
    /\ LET debugJsonString == Marshal(AuthRequest(p))
           strs == {m[1] : m \in debugJsonString} \cup {m[2] : m \in debugJsonString}
       IN  AuthGoto(p, [au[p] EXCEPT !.logs = @ \cup {LogLine(194, {au[p].username}),
                                                     LogLine(195, strs)}],
                    "send")
    /\ UNCHANGED <<cacheVars, hookPreAuth, configured, Parameters>>

\* (mutant) the status code 400 is not read as an error
IsErrorStatus_Above(s) == s > 400

\* if resp.StatusCode >= 400
IsErrorStatus(s) == s >= 400

\* what the call returns on the provider's answer r: the transport error, or
\* the reading of the response by its status code
SendOutcome(c, r) ==
    LET u == c.username
    IN  IF r.err
        THEN Fail(c, AuthErr("transport"))
        ELSE IF IsErrorStatus(r.status)
        THEN IF r.status = StatusForbidden
             THEN Fail([c EXCEPT !.logs = @ \cup {LogLine(216, {u, r.body})}],
                       InvalidCredentialsError)
             ELSE Fail([c EXCEPT !.logs = @ \cup {LogLine(220, {u, r.body})}],
                       StatusError(r.status, r.body))
        ELSE IF r.status = StatusAccepted
        THEN LET cc == [c EXCEPT !.logs = @ \cup {LogLine(226, {u})}]
                 d == Decode(r.body)
             IN  IF ~HasPrefix(r.ctype, <<"application/json">>)
                 THEN Fail(cc, InvalidResponseBodyContentTypeError(r.ctype))
                 ELSE IF ~d.ok
                 THEN Fail(cc, AuthErr("decode"))
                 ELSE Fail(cc, AuthenticationIncompleteError(d.m))
        ELSE Succeed(c, r.body)

\* (mutant) a request the transport failed is sent again
Authenticate_Send_Retry(p) ==
    /\ pc[p] = "send"
    /\ \E r \in Responses :
        LET c == [au[p] EXCEPT !.sent = [url |-> au[p].requestURL, body |-> au[p].jsonString],
                               !.nreq = @ + 1, !.got = r]
        IN  IF r.err THEN AuthGoto(p, c, "send") ELSE AuthReturn(p, SendOutcome(c, r))
    /\ UNCHANGED <<cacheVars, hookPreAuth, configured, Parameters>>

\* req := http.NewRequest("POST", requestURL, jsonString); resp, err := h.httpClient.Do(req)
\* once, and the return on its outcome
Authenticate_Send(p) ==
    /\ pc[p] = "send"
    /\ \E r \in Responses :
        LET c == [au[p] EXCEPT !.sent = [url |-> au[p].requestURL, body |-> au[p].jsonString],
                               !.nreq = @ + 1, !.got = r]
        IN  AuthReturn(p, SendOutcome(c, r))
    /\ UNCHANGED <<cacheVars, hookPreAuth, configured, Parameters>>

Authenticate(p) ==
    \/ Authenticate_Username(p)
    \/ Authenticate_Password(p)
    \/ Authenticate_Hook(p)
    \/ Authenticate_Marshal(p)
    \/ Authenticate_Redact(p)
    \/ Authenticate_Log(p)
    \/ Authenticate_Send(p)

\* every request of the gateway, logins and token checks alike
Next ==
    \/ Tick
    \/ Janitor
    \/ \E p \in Procs : IsAuthenticated(p)
    \/ \E p \in Procs : Authenticate(p)

Spec == Init /\ [][Next]_vars

\* the token cache on its own: Authenticate shares no state with it
InitCache ==
    /\ Init
    /\ hookPreAuth = NoHook
    /\ configured = [realm |-> Str("r")]

\* the credential delegation on its own
InitAuth ==
    /\ Init
    /\ claimExp = [t \in Tokens |-> 0]

NextAuth == \E p \in Procs : Authenticate(p)

\* concurrent Authenticate calls
SpecAuth == InitAuth /\ [][NextAuth]_vars

\* a worker takes a step only while every other worker is idle
NextAuthSeq ==
    \E p \in Procs : (\A q \in Procs \ {p} : pc[q] = "idle") /\ Authenticate(p)

\* Authenticate calls one after the other
SpecAuthSeq == InitAuth /\ [][NextAuthSeq]_vars

NextCache ==
    \/ Tick
    \/ Janitor
    \/ \E p \in Procs : IsAuthenticated(p)

\* concurrent IsAuthenticated calls
SpecCache == InitCache /\ [][NextCache]_vars

\* a worker takes a step only while every other worker is idle
NextCacheSeq ==
    \/ Tick
    \/ Janitor
    \/ \E p \in Procs : (\A q \in Procs \ {p} : pc[q] = "idle") /\ IsAuthenticated(p)

\* IsAuthenticated calls one after the other
SpecCacheSeq == InitCache /\ [][NextCacheSeq]_vars

\* p has made its call
Started(p) == pc[p] # "idle" \/ ia[p].out # "none"

\* every worker makes one call, and no call is over before every worker has
\* made its own
NextCacheConcurrent ==
    \/ Tick
    \/ Janitor
    \/ \E p \in Procs :
        /\ pc[p] = "idle" => ia[p] = NoCall
        /\ IsAuthenticated(p)
        /\ pc'[p] = "idle" => \A q \in Procs \ {p} : Started(q)

\* IsAuthenticated calls that start on an empty cache and run at the same time
SpecCacheConcurrent == InitCache /\ [][NextCacheConcurrent]_vars

(***************************************************************************)
(* Properties of the token validity cache.                                 *)
(***************************************************************************)
\* p's call has come back with a result triple
Returned(p) == pc[p] = "idle" /\ ia[p].out = "return"
\* p's call is over, by a return or by a panic
Over(p) == pc[p] = "idle" /\ ia[p].out # "none"
\* the call returned (true, token, nil)
Authenticated(c) == c.out = "return" /\ c.auth /\ c.rtok = c.tok /\ c.err = NilErr
\* the call returned (false, nil, nil)
PlainNegative(c) == c.out = "return" /\ ~c.auth /\ c.rtok = "nil" /\ c.err = NilErr
\* the bit field carries the expired or the signature-invalid flag
HasAcceptableFlag(b) ==
    \/ BitAnd(b, ValidationErrorExpired) # 0
    \/ BitAnd(b, ValidationErrorSignatureInvalid) # 0

\* C1: a call that finds the never-expires entry (value 0) of a token in the
\* cache returns (true, token, nil) and does not invoke the verifier.
C1_NeverExpiresHit ==
    \A p \in Procs :
        Over(p) /\ ia[p].ok /\ ia[p].exp.val = 0
            => Authenticated(ia[p]) /\ ~ia[p].verified

\* C2: the miss path records, for a token with exp claim e in the future, an
\* entry of value e that is evicted e - now seconds after its insertion, and a
\* call that finds the entry and reads a time before e returns
\* (true, token, nil) without invoking the verifier.
C2_ExpiryEntry ==
    [][\A p \in Procs :
        /\ pc[p] = "set" /\ pc'[p] = "idle"
            => LET t == ia[p].tok
                   e == claimExp[t]
               IN  /\ expCache'[t].present
                   /\ expCache'[t].x.val = e
                   /\ expCache'[t].expAt = clock + Seconds(e - Unix(clock))
        /\ pc[p] = "hit" /\ pc'[p] = "idle" /\ ia[p].exp.val > Unix(clock)
            => Authenticated(ia'[p]) /\ ~ia'[p].verified]_vars

\* C3: a call that finds the entry of a token with expiry e and reads a time
\* now >= e does not return authenticated.
C3_NoReusePastExpiry ==
    \A p \in Procs :
        Returned(p) /\ ia[p].ok /\ claimExp[ia[p].tok] > 0 /\ ia[p].now >= ia[p].exp.val
            => ~ia[p].auth

\* C3 witness: a stale hit, answered not-authenticated
C3_Witness ==
    \E p \in Procs :
        /\ Returned(p) /\ ia[p].ok /\ claimExp[ia[p].tok] > 0
        /\ ia[p].now >= ia[p].exp.val /\ ~ia[p].auth

\* C4: whenever an entry of the cache is written, the writing call presented
\* that token and its verifier reported it valid without error, with no exp
\* claim or one after the time the call read; calls whose token read or
\* verification failed write nothing.
C4_OnlyVerifiedValidCached ==
    [][\A t \in Tokens :
        expCache'[t] # expCache[t] /\ expCache'[t].present
            => \E p \in Procs :
                /\ pc[p] \in {"miss", "set"} /\ pc'[p] = "idle"
                /\ ia'[p].tok = t /\ ia'[p].verified
                /\ ia'[p].vres.valid /\ ia'[p].vres.err = NilErr
                /\ (claimExp[t] = 0 \/ claimExp[t] > ia'[p].now)
                /\ Authenticated(ia'[p])]_vars

\* C4 witness: an entry is in the cache while a verification of the same token
\* has just failed
C4_Witness ==
    \E t \in Tokens, p \in Procs :
        /\ expCache[t].present
        /\ Returned(p) /\ ia[p].tok = t /\ ia[p].verified /\ ~ia[p].auth

\* C5: a call presenting t that is made when the last call returned for t came
\* back not-authenticated goes on from its lookup to invoke the verifier.
C5_FailedIsRechecked ==
    [][\A p \in Procs, t \in Tokens :
        failed[t] /\ pc[p] = "get" /\ pc'[p] # "get" /\ ia[p].tok = t
            => pc'[p] = "miss"]_vars

\* C6: on a miss, a verifier error classified expired or signature-invalid
\* gives (false, nil, nil), and the cache is left as it was.
C6_AcceptableIsPlainNegative ==
    [][\A p \in Procs :
        (/\ pc[p] = "miss" /\ pc'[p] # "miss"
         /\ ia'[p].vres.err.kind = "ValidationError"
         /\ HasAcceptableFlag(ia'[p].vres.err.bits))
            => /\ pc'[p] = "idle"
               /\ PlainNegative(ia'[p])
               /\ expCache' = expCache]_vars

\* C6 witness: the verifier reported "expired", the call returned (false, nil, nil)
C6_Witness ==
    \E p \in Procs :
        /\ Returned(p) /\ ia[p].verified
        /\ ia[p].vres.err = ValidationError(ValidationErrorExpired)
        /\ PlainNegative(ia[p])
        /\ ~expCache[ia[p].tok].present

\* C7: on a miss, a verifier error that is no validation error, or a validation
\* error carrying neither the expired nor the signature-invalid flag, is
\* returned as (false, nil, err); a verifier error is replaced by nil only when
\* it carries one of the two flags.
C7_OtherErrorsReturned ==
    [][\A p \in Procs :
        pc[p] = "miss" /\ pc'[p] # "miss" /\ ia'[p].vres.err # NilErr
            => LET verr == ia'[p].vres.err
                   acceptable == verr.kind = "ValidationError" /\ HasAcceptableFlag(verr.bits)
               IN  /\ ~acceptable
                    => /\ pc'[p] = "idle" /\ ia'[p].out = "return"
                       /\ ~ia'[p].auth /\ ia'[p].rtok = "nil"
                       /\ ia'[p].err = verr
                       /\ expCache' = expCache
                   /\ (pc'[p] = "idle" /\ ia'[p].err = NilErr) => acceptable]_vars

\* C7 witness: both kinds of error came back to the caller
C7_Witness ==
    \E p, q \in Procs :
        /\ Returned(p) /\ ia[p].verified /\ ~ia[p].auth
        /\ ia[p].vres.err = ValidationError(ValidationErrorNotValidYet)
        /\ ia[p].err = ValidationError(ValidationErrorNotValidYet)
        /\ Returned(q) /\ ia[q].verified /\ ~ia[q].auth
        /\ ia[q].vres.err = OtherError /\ ia[q].err = OtherError

(***************************************************************************)
(* Properties of the credential delegation.                                *)
(***************************************************************************)
\* p's Authenticate call has returned
LoginOver(p) == pc[p] = "idle" /\ au[p].out = "return"

\* C8: with a hook that returns a falsy value, Authenticate fails with
\* InvalidCredentialsError and no request goes out to the provider at any
\* point of the call.
C8_HookRejection ==
    \A p \in Procs :
        hookPreAuth.kind = "falsy"
            => /\ au[p].nreq = 0 /\ au[p].sent = NoRequest
               /\ LoginOver(p)
                    => au[p].err = InvalidCredentialsError /\ au[p].resp = NilResponse

\* C8 witness: a call has come back from the rejecting hook
C8_Witness ==
    \E p \in Procs :
        /\ hookPreAuth.kind = "falsy" /\ LoginOver(p) /\ au[p].hook = "falsy"
        /\ au[p].err = InvalidCredentialsError

\* C9: no log line of a call shows the password the call was given.
C9_PasswordNeverLogged ==
    \A p \in Procs : \A l \in au[p].logs : au[p].password \notin l.strs

\* C10: with no hook configured, the request of every call goes to
\* <configured base>/authenticate and its body is the configured parameters
\* with username and password set to the arguments of that call.
C10_RequestBody ==
    \A p \in Procs :
        hookPreAuth = NoHook /\ au[p].nreq > 0
            => /\ au[p].sent.url = <<Url, "/authenticate">>
               /\ au[p].sent.body =
                    Marshal(MapSet(MapSet(configured, "username", Str(au[p].username)),
                                   "password", Str(au[p].password)))

\* C10 witness: two calls with different credentials have sent their requests,
\* under a configuration that names a username and a password of its own
C10_Witness ==
    \E p, q \in Procs :
        /\ hookPreAuth = NoHook /\ "username" \in DOMAIN configured
        /\ "password" \in DOMAIN configured
        /\ LoginOver(p) /\ LoginOver(q) /\ au[p].nreq > 0 /\ au[q].nreq > 0
        /\ au[p].username # au[q].username

\* the JSON object with the members of B, a body as the hook's script wrote it
BodyAsJSON(b) == {<<k, b[k].s>> : k \in DOMAIN b}
\* the configured hook returns {body: B, url: U, allowedApplications: [a, b]}
HookReturnsAll ==
    /\ hookPreAuth.kind = "object" /\ hookPreAuth.body # "none"
    /\ hookPreAuth.url = HookURL
    /\ hookPreAuth.apps.defined /\ hookPreAuth.apps.strings

\* C11: when the hook returns {body: B, url: U, allowedApplications: [a, b]},
\* the one request of the call goes to U with body B, not to the configured
\* target with the configured body, and a call the provider answers with
\* success returns [a, b] as its allowed applications.
C11_HookOverrides ==
    \A p \in Procs :
        HookReturnsAll /\ au[p].nreq > 0
            => /\ au[p].nreq = 1
               /\ au[p].sent.url = HookURL
               /\ au[p].sent.url # <<Url, "/authenticate">>
               /\ au[p].sent.body =
                    BodyAsJSON(HookBody(hookPreAuth, au[p].username, au[p].password).m)
               /\ (LoginOver(p) /\ au[p].err = NoAuthErr)
                    => /\ ~au[p].resp.nil
                       /\ au[p].resp.AllowedApplications = <<"a", "b">>

\* C11 witness: a call through a hook whose body values arrive wrapped has sent
\* its request and come back with a token
C11_Witness ==
    \E p \in Procs :
        /\ HookReturnsAll /\ hookPreAuth.body = "wrapped"
        /\ LoginOver(p) /\ au[p].nreq = 1 /\ au[p].err = NoAuthErr
        /\ au[p].resp.JWT = JWTBody

\* p's call is over and the provider answered its request with a response
Answered(p) == LoginOver(p) /\ au[p].nreq = 1 /\ ~au[p].got.err
\* the three outcomes of a call on a response that is not a 202
ReturnsJWT(c) == ~c.resp.nil /\ c.resp.JWT = c.got.body /\ c.err = NoAuthErr
ReturnsInvalidCredentials(c) == c.resp.nil /\ c.err = InvalidCredentialsError
ReturnsStatusError(c) ==
    /\ c.resp.nil /\ c.err.kind = "status"
    /\ c.err.status = c.got.status /\ c.err.body = c.got.body

\* C12: for every response status s other than 202 the call has exactly one
\* outcome: s < 400 returns the whole body as the JWT with no error, s = 403
\* returns InvalidCredentialsError, and every other s >= 400 returns the generic
\* delegation error that carries s and the body.
C12_OutcomeByStatus ==
    \A p \in Procs :
        Answered(p) /\ au[p].got.status # 202
            => LET c == au[p]
                   s == c.got.status
               IN  /\ s < 400 => ReturnsJWT(c)
                   /\ s = 403 => ReturnsInvalidCredentials(c)
                   /\ (s >= 400 /\ s # 403) => ReturnsStatusError(c)
                   /\ ~(ReturnsJWT(c) /\ ReturnsInvalidCredentials(c))
                   /\ ~(ReturnsJWT(c) /\ ReturnsStatusError(c))
                   /\ ~(ReturnsInvalidCredentials(c) /\ ReturnsStatusError(c))

\* C12 witness: one call answered 400 has returned the generic error, another
\* answered 399 has returned the body as its JWT
C12_Witness ==
    \E p, q \in Procs :
        /\ Answered(p) /\ au[p].got.status = 400 /\ ReturnsStatusError(au[p])
        /\ Answered(q) /\ au[q].got.status = 399 /\ ReturnsJWT(au[q])

\* a Content-Type header that starts with application/json
StartsWithJSON(ct) == ct # <<>> /\ ct[1] = "application/json"
\* the call returns no response, so no JWT
ReturnsNoJWT(c) == c.resp.nil /\ c.resp.JWT = "" /\ c.err # NoAuthErr
\* AuthenticationIncompleteError with the decoded body of the response
ReturnsIncomplete(c) ==
    /\ c.got.body = FactorBody
    /\ c.err.kind = "AuthenticationIncompleteError"
    /\ c.err.props = [factor |-> "sms"]
\* InvalidResponseBodyContentTypeError with the content type of the response
ReturnsInvalidContentType(c) ==
    /\ c.err.kind = "InvalidResponseBodyContentTypeError"
    /\ c.err.ctype = c.got.ctype

\* C13 as stated: on a 202 the call never returns a JWT; a Content-Type that
\* does not start with application/json gives InvalidResponseBodyContentTypeError
\* with that content type, every other 202 gives AuthenticationIncompleteError
\* with the decoded body.
C13_AcceptedAsStated ==
    \A p \in Procs :
        Answered(p) /\ au[p].got.status = 202
            => /\ ReturnsNoJWT(au[p])
               /\ IF ~StartsWithJSON(au[p].got.ctype)
                  THEN ReturnsInvalidContentType(au[p])
                  ELSE ReturnsIncomplete(au[p])

\* C13: on a 202 the call never returns a JWT; a Content-Type that does not
\* start with application/json gives InvalidResponseBodyContentTypeError with
\* that content type; otherwise a body that decodes as a JSON object gives
\* AuthenticationIncompleteError with the decoded body, and a body that does
\* not decode gives the decoder's error.
C13_Accepted ==
    \A p \in Procs :
        Answered(p) /\ au[p].got.status = 202
            => /\ ReturnsNoJWT(au[p])
               /\ IF ~StartsWithJSON(au[p].got.ctype)
                  THEN ReturnsInvalidContentType(au[p])
                  ELSE IF au[p].got.body = FactorBody
                  THEN ReturnsIncomplete(au[p])
                  ELSE au[p].err.kind = "decode"

\* C13 witness: a 202 with a JSON content type that carries a charset and a
\* body that is no JSON has come back with the decoder's error
C13_Witness ==
    \E p \in Procs :
        /\ Answered(p) /\ au[p].got.status = 202
        /\ au[p].got.ctype = <<"application/json", "; charset=utf-8">>
        /\ au[p].got.body = JWTBody
        /\ au[p].err.kind = "decode"

\* C14: a call issues at most one request to the provider: once the request
\* is out, whatever came of it, the call is over.
C14_AtMostOneRequest ==
    \A p \in Procs :
        /\ au[p].nreq <= 1
        /\ au[p].nreq = 1 => LoginOver(p)

\* C14 witness: while one call has returned the transport's error after its one
\* request, another has returned on an error status after its one request
C14_Witness ==
    \E p, q \in Procs :
        /\ LoginOver(p) /\ au[p].nreq = 1 /\ au[p].got.err
        /\ LoginOver(q) /\ au[q].nreq = 1 /\ au[q].got.status = 500

\* C15: when the hook returns a value that is truthy but no object, the call
\* fails with an error that is not InvalidCredentialsError, does not fall back
\* to the default request, and sends nothing.
C15_NonObjectHookResult ==
    hookPreAuth.kind = "scalar"
        => \A p \in Procs :
            /\ au[p].nreq = 0 /\ au[p].sent = NoRequest
            /\ pc[p] \notin {"marshal", "redact", "log", "send"}
            /\ LoginOver(p)
                => /\ au[p].resp.nil
                   /\ au[p].err # NoAuthErr
                   /\ au[p].err # InvalidCredentialsError
                   /\ au[p].err.kind = "hook function must return object"

\* C15 witness: a call has returned from such a hook
C15_Witness ==
    \E p \in Procs :
        /\ hookPreAuth.kind = "scalar" /\ LoginOver(p)
        /\ au[p].hook = "scalar" /\ au[p].err.kind = "hook function must return object"

\* C16: a call that finds an entry whose expiry is neither the never-expires
\* value nor after the time it reads returns (false, nil, nil), does not invoke
\* the verifier and leaves the cache as it was.
C16_StaleHitFrame ==
    [][\A p \in Procs :
        (/\ pc[p] = "hit" /\ pc'[p] # "hit"
         /\ ia[p].ok /\ ia[p].exp.val # 0 /\ ia[p].exp.val <= Unix(clock))
            => /\ pc'[p] = "idle"
               /\ PlainNegative(ia'[p])
               /\ ~ia'[p].verified
               /\ expCache' = expCache]_vars

\* C16 witness: a call has come back from a stale entry, and the entry is
\* still in the cache as the call found it
C16_Witness ==
    \E p \in Procs :
        /\ Returned(p) /\ ia[p].ok /\ ia[p].exp.val # 0 /\ ia[p].exp.val <= ia[p].now
        /\ PlainNegative(ia[p]) /\ ~ia[p].verified
        /\ expCache[ia[p].tok].present /\ expCache[ia[p].tok].x = ia[p].exp

\* C17: with no hook, two calls with different credentials that run at the
\* same time each send a body with their own username and their own password,
\* whatever the interleaving.
C17_OwnCredentialsSent ==
    \A p, q \in Procs :
        (/\ hookPreAuth = NoHook /\ p # q
         /\ au[p].username # au[q].username
         /\ au[p].nreq = 1 /\ au[q].nreq = 1)
            => /\ <<"username", au[p].username>> \in au[p].sent.body
               /\ <<"password", au[p].password>> \in au[p].sent.body

\* C18: when the calls that run at the same time all present the same valid,
\* unexpired token t and the cache holds nothing at their start, every call
\* returns (true, token, nil), and when they are over the cache holds for t
\* the one entry whose value is the expiry claim of t (0 if it has none), and
\* nothing for any other token.
C18_SameTokenConcurrent ==
    \A t \in Tokens :
        (/\ \A p \in Procs :
                /\ Over(p) /\ ia[p].tok = t
                /\ ia[p].verified => (ia[p].vres.valid /\ ia[p].vres.err = NilErr)
         /\ (claimExp[t] = 0 \/ claimExp[t] > Unix(clock)))
            => /\ \A p \in Procs : Authenticated(ia[p])
               /\ expCache[t].present
               /\ expCache[t].x.val = claimExp[t]
               /\ \A u \in Tokens \ {t} : expCache[u] = NoItem

C20_NeverAborts ==
    /\ \A p \in Procs : Over(p) => ia[p].out = "return"
    /\ \A t \in Tokens : expCache[t].present => expCache[t].x.typ = "int64"

====
